---- MODULE Spec2Model ----
(***************************************************************************)
(* A model of the Go-Back-N / Selective-Repeat / SACK transport of         *)
(* sender_alkinoos.py (GBNSender) and receiver_alkinoos.py (GBNReceiver):  *)
(* the two Scapy automata, the segments in flight between them, the loss   *)
(* gates of the receiver and the retransmission timer of the sender.       *)
(***************************************************************************)
EXTENDS Integers, Sequences, FiniteSets, TLC

VARIABLES
    cfg,            \* command line of both endpoints (fixed after start-up)
    payloads,       \* the input file as the list of chunks the sender was given
    s_state,        \* sender automaton state
    q,              \* sender: payload queue (chunks not yet taken)
    buffer,         \* sender: dict seq-num -> payload, in insertion order
    current,        \* sender: next sequence number to assign
    unack,          \* sender: first unacknowledged sequence number
    receiver_win,   \* sender: window last advertised by the receiver
    SACK,           \* sender: SACK flag (follows the options bit of ACKs)
    count_acks,     \* sender: <<number of repeats, repeated ack number>>
    s_tx,           \* segments the sender's last handler step transmitted
    s_ev,           \* the sender's last handler step
    s_pkt,          \* segment that step received (ACK_IN)
    last_ack,       \* <<num, win>> of the last ACK processed
    r_state,        \* receiver automaton state
    next,           \* receiver: next expected sequence number
    end_receiver,   \* receiver: a short segment has been seen
    end_num,        \* receiver: sequence number after the short segment
    r_buffer,       \* receiver: buffered out-of-order payloads
    buffer_seq,     \* receiver: their sequence numbers, same order
    buffer_size,    \* receiver: number of buffered payloads
    out_file,       \* receiver: payloads appended to the output file
    r_tx,           \* segments the receiver's last handler step transmitted
    r_pkt,          \* segment the receiver's last handler step received
    r_gate,         \* outcome of the loss gates in that step
    r_ev,           \* branch of DATA_IN that step took for a DATA segment
    dataCh,         \* segments in flight sender -> receiver (FIFO)
    ackCh           \* segments in flight receiver -> sender (FIFO)

cvars == <<cfg, payloads>>
svars == <<s_state, q, buffer, current, unack, receiver_win, SACK,
           count_acks, s_tx, s_ev, s_pkt, last_ack>>
rvars == <<r_state, next, end_receiver, end_num, r_buffer, buffer_seq,
           buffer_size, out_file, r_tx, r_pkt, r_gate, r_ev>>
vars == <<cfg, payloads, s_state, q, buffer, current, unack, receiver_win,
          SACK, count_acks, s_tx, s_ev, s_pkt, last_ack, r_state, next,
          end_receiver, end_num, r_buffer, buffer_seq, buffer_size,
          out_file, r_tx, r_pkt, r_gate, r_ev, dataCh, ackCh>>

----------------------------------------------------------------------------
(* Bounds of the model *)

\* longest input, in chunks
MaxChunks == 4

\* segments one direction of the network holds at a time
ChanCap == 2

\* payloads the receiver appends before the model stops following it
MaxOut == 6

----------------------------------------------------------------------------
(* Program constants *)

\* chunk_size = 2**6: the size of every chunk but possibly the last
P_SIZE == 64

\* the longest chunk that is shorter than chunk_size
SHORT_LEN == P_SIZE - 1

\* a field the header length leaves out reads as None
Absent == -1

Min(a, b) == IF a < b THEN a ELSE b

Max(a, b) == IF a < b THEN b ELSE a

\* 2**self.n_bits
M == 2 ^ cfg.n_bits

\* range(a, b) as a list
RECURSIVE PyRange(_, _)
PyRange(a, b) == IF a >= b THEN <<>> ELSE <<a>> \o PyRange(a + 1, b)

\* the elements of a list
Elems(s) == {s[i] : i \in 1..Len(s)}

\* x in list
InList(x, s) == \E i \in 1..Len(s) : s[i] = x

\* list.index(x), 1-based; 0 when absent (Python raises ValueError)
IndexOf(s, x) ==
    IF InList(x, s) THEN CHOOSE i \in 1..Len(s) :
                             s[i] = x /\ \A j \in 1..(i - 1) : s[j] # x
    ELSE 0

\* list.remove(x): drops the first element equal to x
RemoveFirst(s, x) ==
    LET i == IndexOf(s, x)
    IN  IF i = 0 THEN s
        ELSE [j \in 1..(Len(s) - 1) |-> IF j < i THEN s[j] ELSE s[j + 1]]

\* sorted(list)
RECURSIVE Sorted(_)
Sorted(s) ==
    IF s = <<>> THEN <<>>
    ELSE LET m == CHOOSE x \in Elems(s) : \A y \in Elems(s) : x <= y
         IN  <<m>> \o Sorted(RemoveFirst(s, m))

----------------------------------------------------------------------------
(* The GBN header *)

NoPayload == [id |-> 0, len |-> 0]

\* a header as built by GBN(...), with the payload that follows it
GBN(type, options, hlen, num, win, blen, l1, n1, l2, n2, l3, n3, payload) ==
    [type |-> type, options |-> options, len |-> payload.len, hlen |-> hlen,
     num |-> num, win |-> win,
     blen     |-> IF hlen >= 7  THEN blen ELSE Absent,
     left_1   |-> IF hlen >= 8  THEN l1 ELSE Absent,
     length_1 |-> IF hlen >= 9  THEN n1 ELSE Absent,
     left_2   |-> IF hlen >= 11 THEN l2 ELSE Absent,
     length_2 |-> IF hlen >= 12 THEN n2 ELSE Absent,
     left_3   |-> IF hlen >= 14 THEN l3 ELSE Absent,
     length_3 |-> IF hlen >= 15 THEN n3 ELSE Absent,
     payload  |-> payload]

\* the DATA segment of every transmission of the sender
DataSeg(options, num, payload) ==
    GBN(0, options, 6, num, cfg.win, 0, 0, 0, 0, 0, 0, 0, payload)

NoPkt == GBN(0, 0, 0, Absent, Absent, 0, 0, 0, 0, 0, 0, 0, NoPayload)

----------------------------------------------------------------------------
(* The network *)

\* room for n more segments towards the receiver
DataRoom(n) == r_state = "END" \/ Len(dataCh) + n <= ChanCap

\* room for n more segments towards the sender
AckRoom(n) == s_state \in {"END", "EXCEPTION"} \/ Len(ackCh) + n <= ChanCap

\* send(): segments for an endpoint that has exited reach nobody
ToReceiver(segs) == IF r_state = "END" THEN dataCh ELSE dataCh \o segs

ToSender(segs) ==
    IF s_state \in {"END", "EXCEPTION"} THEN ackCh ELSE ackCh \o segs

----------------------------------------------------------------------------
(* The sender: GBNSender *)

\* list(self.buffer.keys())
Keys(buf) == [i \in 1..Len(buf) |-> buf[i].num]

\* self.buffer[k], for a key of the dict
DictGet(buf, k) == buf[IndexOf(Keys(buf), k)].payload

\* self.buffer[k] = v: a present key keeps its place, a new one goes last
DictSet(buf, k, v) ==
    IF InList(k, Keys(buf))
    THEN [i \in 1..Len(buf) |-> IF buf[i].num = k
                                THEN [num |-> k, payload |-> v] ELSE buf[i]]
    ELSE Append(buf, [num |-> k, payload |-> v])

\* self.buffer.pop(k, None)
DictPop(buf, k) == SelectSeq(buf, LAMBDA e : e.num # k)

\* options of a DATA segment: 1 when self.SACK is set
DataOptions(sack) == IF sack # 0 THEN 1 ELSE 0

\* the window check with <= for <
WindowOpen_Mut == Len(buffer) <= Min(cfg.win, receiver_win)

\* the window check of SEND
WindowOpen == Len(buffer) < Min(cfg.win, receiver_win)

\* SEND: one pass through the state's body
SEND ==
    /\ s_state = "SEND"
    /\ IF WindowOpen /\ q # <<>>
       THEN LET payload == Head(q)
                seg == DataSeg(DataOptions(SACK), current, payload)
            IN  /\ DataRoom(1)
                /\ q' = Tail(q)
                /\ buffer' = DictSet(buffer, current, payload)
                /\ dataCh' = ToReceiver(<<seg>>)
                /\ s_tx' = <<seg>>
                /\ current' = (current + 1) % M
                /\ s_state' = "SEND"
                /\ ackCh' = ackCh
       ELSE /\ s_state' = IF WindowOpen /\ unack = current
                          THEN "END" ELSE "SEND_IDLE"
            /\ ackCh' = IF WindowOpen /\ unack = current THEN <<>> ELSE ackCh
            /\ s_tx' = <<>>
            /\ UNCHANGED <<q, buffer, dataCh, current>>
    /\ s_ev' = "SEND"
    /\ s_pkt' = NoPkt
    /\ UNCHANGED <<unack, receiver_win, SACK, count_acks, last_ack>>
    /\ UNCHANGED cvars
    /\ UNCHANGED rvars

\* the SACK flag after an ACK with these options
SackAfter(pkt) ==
    IF pkt.options = 0 THEN 0 ELSE IF pkt.options = 1 THEN 1 ELSE SACK

\* the duplicate-ack counter after counting this ack number
CountAfter(ack) ==
    IF ack = count_acks[2] THEN <<count_acks[1] + 1, ack>> ELSE <<0, ack>>

\* a fast retransmit already on the second identical ACK
FastRetransmitDue_Mut(cnt) == cnt[1] >= 1

\* the threshold of the fast retransmit
FastRetransmitDue(cnt) == cnt[1] >= 2

\* one SACK block as the list of the sequence numbers it covers
ExpandBlock(left, length) ==
    IF left + length >= M
    THEN PyRange(left, M) \o PyRange(0, length - Len(PyRange(left, M)))
    ELSE PyRange(left, left + length)

\* flat_rec_acks: every sequence number the blocks of the ACK cover
FlatRecAcks(pkt) ==
    ExpandBlock(pkt.left_1, pkt.length_1)
    \o (IF pkt.blen >= 2 THEN ExpandBlock(pkt.left_2, pkt.length_2) ELSE <<>>)
    \o (IF pkt.blen >= 3 THEN ExpandBlock(pkt.left_3, pkt.length_3) ELSE <<>>)

\* every key of the buffer, also those behind the last covered number
BufferAppl_Mut(keys, flat) == keys

\* buffer_appl: the keys in front of the last covered sequence number
BufferAppl(keys, flat) == SubSeq(keys, 1, IndexOf(keys, flat[Len(flat)]) - 1)

\* the keys a SACK makes the sender retransmit, in order
SackResend(keys, flat) ==
    SelectSeq(BufferAppl(keys, flat), LAMBDA k : ~InList(k, flat))

\* the SACK branch raises: no covered number, or the last one is no key
SackRaises(keys, flat) == flat = <<>> \/ ~InList(flat[Len(flat)], keys)

\* the key removed in round i of the eviction loop
EvictKey(ack, i, rwin) ==
    IF ack - i >= 0 THEN ack - i ELSE ack - (i % rwin) + M - 1

\* an eviction loop that stores under its keys where it should delete them
Evict_Mut(buf, ack, rwin) ==
    SelectSeq(buf, LAMBDA e : \A i \in 1..rwin : e.num # EvictKey(ack, i, rwin))
    \o <<[num |-> EvictKey(ack, 1, rwin), payload |-> NoPayload]>>

\* the buffer after the eviction loop
Evict(buf, ack, rwin) ==
    SelectSeq(buf, LAMBDA e : \A i \in 1..rwin : e.num # EvictKey(ack, i, rwin))

\* what ACK_IN does with an ACK: the retransmissions, the counter, and
\* whether the handler raises before reaching the cumulative advance
AckEffect(pkt) ==
    LET ack  == pkt.num
        sack == SackAfter(pkt)
        cnt  == CountAfter(ack)
        keys == Keys(buffer)
        flat == FlatRecAcks(pkt)
    IN  IF cfg.Q_4_2 = 1
        THEN IF FastRetransmitDue(cnt)
             THEN IF InList(ack, keys)
                  THEN [raises |-> FALSE, cnt |-> <<0, -1>>,
                        tx |-> <<DataSeg(0, ack, DictGet(buffer, ack))>>]
                  ELSE [raises |-> TRUE, cnt |-> cnt, tx |-> <<>>]
             ELSE [raises |-> FALSE, cnt |-> cnt, tx |-> <<>>]
        ELSE IF sack = 1 /\ pkt.blen \in {1, 2, 3}
             THEN IF SackRaises(keys, flat)
                  THEN [raises |-> TRUE, cnt |-> count_acks, tx |-> <<>>]
                  ELSE [raises |-> FALSE, cnt |-> count_acks,
                        tx |-> [i \in 1..Len(SackResend(keys, flat)) |->
                                  DataSeg(1, SackResend(keys, flat)[i],
                                          DictGet(buffer,
                                                  SackResend(keys, flat)[i]))]]
             ELSE [raises |-> FALSE, cnt |-> count_acks, tx |-> <<>>]

\* a type check that takes every segment for an ACK
DataInsteadOfAck_Mut(pkt) == FALSE

\* the check for a data segment arriving where an ACK is expected
DataInsteadOfAck(pkt) == pkt.type = 0

\* ACK_IN(pkt): the sender handles segment pkt, the network keeping the
\* segments rest behind it
ACK_IN(pkt, rest) ==
    /\ s_state = "SEND_IDLE"
    /\ LET eff == AckEffect(pkt)
       IN  /\ s_pkt' = pkt
           /\ IF DataInsteadOfAck(pkt)
              THEN /\ s_state' = "SEND"
                   /\ s_tx' = <<>>
                   /\ ackCh' = rest
                   /\ UNCHANGED <<buffer, unack, receiver_win, SACK,
                                  count_acks, last_ack, dataCh>>
              ELSE /\ DataRoom(Len(eff.tx))
                   /\ receiver_win' = pkt.win
                   /\ SACK' = SackAfter(pkt)
                   /\ count_acks' = eff.cnt
                   /\ s_tx' = eff.tx
                   /\ dataCh' = ToReceiver(eff.tx)
                   /\ last_ack' = <<pkt.num, pkt.win>>
                   /\ IF eff.raises
                      THEN /\ s_state' = "EXCEPTION"
                           /\ ackCh' = <<>>
                           /\ UNCHANGED <<buffer, unack>>
                      ELSE /\ s_state' = "SEND"
                           /\ ackCh' = rest
                           /\ unack' = pkt.num
                           /\ buffer' = Evict(buffer, pkt.num, pkt.win)
    /\ s_ev' = "ACK_IN"
    /\ UNCHANGED <<q, current>>
    /\ UNCHANGED cvars
    /\ UNCHANGED rvars

\* packet_in: the next segment of the network reaches the sender
s_packet_in ==
    /\ ackCh # <<>>
    /\ ACK_IN(Head(ackCh), Tail(ackCh))

\* a retransmission of the first segment of the buffer only
RETRANSMIT_Mut ==
    [i \in 1..Min(1, Len(buffer)) |->
        DataSeg(DataOptions(SACK), buffer[i].num, buffer[i].payload)]

\* RETRANSMIT: the segments the state sends, one per key of the buffer
RETRANSMIT ==
    [i \in 1..Len(buffer) |->
        DataSeg(DataOptions(SACK), buffer[i].num, buffer[i].payload)]

\* timeout_reached / RETRANSMIT: the timer of SEND fires
timeout_reached ==
    /\ s_state = "SEND_IDLE"
    /\ DataRoom(Len(buffer))
    /\ count_acks' = <<0, -1>>
    /\ s_tx' = RETRANSMIT
    /\ dataCh' = ToReceiver(s_tx')
    /\ s_state' = "SEND"
    /\ s_ev' = "RETRANSMIT"
    /\ s_pkt' = NoPkt
    /\ UNCHANGED <<q, buffer, current, unack, receiver_win, SACK, last_ack,
                   ackCh>>
    /\ UNCHANGED cvars
    /\ UNCHANGED rvars

----------------------------------------------------------------------------
(* The receiver: GBNReceiver *)

\* the for loop over zip(buffer_seq, buffer) of the drain, from position idx:
\* a match is written, removed from both lists, and the iteration goes on
\* over the shortened lists
RECURSIVE DrainPass(_, _)
DrainPass(st, idx) ==
    IF idx > Len(st.seq) \/ idx > Len(st.buf) THEN st
    ELSE LET itemSeq == st.seq[idx]
             item    == st.buf[idx]
         IN  IF itemSeq = st.next
             THEN DrainPass([seq  |-> RemoveFirst(st.seq, itemSeq),
                             buf  |-> RemoveFirst(st.buf, item),
                             size |-> st.size - 1,
                             next |-> (st.next + 1) % M,
                             out  |-> Append(st.out, item)], idx + 1)
             ELSE DrainPass(st, idx + 1)

\* a drain that delivers nothing from the buffer
Drain_Mut(st) == st

\* the while loop of the drain
RECURSIVE Drain(_)
Drain(st) ==
    IF st.size > 0 /\ InList(st.next, st.seq)
    THEN Drain(DrainPass(st, 1))
    ELSE st

\* an expected number that goes on counting behind 2**n_bits - 1
NextExpected_Mut(n) == n + 1

\* self.next after the delivery of segment n
NextExpected(n) == (n + 1) % M

\* num == self.next: deliver the payload, then drain the buffer
InOrder(payload) ==
    Drain([seq  |-> buffer_seq,
           buf  |-> r_buffer,
           size |-> buffer_size,
           next |-> NextExpected(next),
           out  |-> Append(out_file, payload)])

\* a receive window one number wider
InWindow_Mut(num) ==
    LET shift        == IF num < next THEN M ELSE 0
        firstElement == next + 1 - shift
        lastElement  == next + cfg.r_win - shift
    IN  lastElement >= num /\ num >= firstElement

\* the receive-window check of an out-of-sequence segment
InWindow(num) ==
    LET shift        == IF num < next THEN M ELSE 0
        firstElement == next + 1 - shift
        lastElement  == next + cfg.r_win - 1 - shift
    IN  lastElement >= num /\ num >= firstElement

\* every out-of-sequence segment not yet buffered is put into the buffer
Buffers_Mut(num) == ~InList(num, buffer_seq)

\* a segment in the window is put into the buffer again
BuffersTwice_Mut(num) == InWindow(num)

\* an out-of-sequence segment is put into the buffer
Buffers(num) == InWindow(num) /\ ~InList(num, buffer_seq)

\* sorted_buffer_seq: the buffered numbers in the order the SACK is built from
SortedBufferSeq(seqs) ==
    LET over  == Sorted(SelectSeq(seqs, LAMBDA i : 2 * i >= M))
        under == Sorted(SelectSeq(seqs, LAMBDA i : 2 * i < M))
    IN  IF over # <<>> /\ under # <<>>
        THEN IF over[1] >= M - cfg.r_win /\ under[1] <= cfg.r_win
             THEN over \o under
             ELSE under \o over
        ELSE over \o under

\* ranges: both ends of every gap between neighbours of the sorted list
RECURSIVE Ranges(_)
Ranges(s) ==
    IF Len(s) < 2 THEN <<>>
    ELSE (IF s[1] + 1 # s[2] /\ s[1] # M - 1 THEN <<s[1], s[2]>> ELSE <<>>)
         \o Ranges(Tail(s))

\* start_end_ranges
StartEndRanges(s) ==
    (IF s = <<>> THEN <<>> ELSE <<s[1]>>)
    \o Ranges(s)
    \o (IF s = <<>> THEN <<>> ELSE <<s[Len(s)]>>)

\* the length of a block from its two ends
BlockLen(first, last) ==
    IF last - first + 1 < 0 THEN M + (last - first + 1) ELSE last - first + 1

\* block_length with every run of the list given a block
block_length_Mut(se) == Len(se) \div 2

\* block_length: the number of blocks of the SACK header, from the list of
\* the starts and ends of the runs
block_length(se) ==
    IF Len(se) = 2 THEN 1
    ELSE IF Len(se) = 4 THEN 2
    ELSE IF Len(se) >= 6 THEN 3 ELSE 0

\* a receiver that answers every segment with a SACK header
PlainAck_Mut(pkt) == FALSE

\* the test for the ACK without blocks
PlainAck(pkt) == pkt.options = 0

\* the ACK the receiver answers a DATA segment with
AckSeg(pkt, nxt, seqs) ==
    IF PlainAck(pkt)
    THEN GBN(1, 0, 6, nxt, cfg.r_win, 0, 0, 0, 0, 0, 0, 0, NoPayload)
    ELSE LET se == StartEndRanges(SortedBufferSeq(seqs))
             n  == block_length(se)
         IN  GBN(1, 1, 6 + 3 * n, nxt, cfg.r_win, n,
                 IF n >= 1 THEN se[1] ELSE 0,
                 IF n >= 1 THEN BlockLen(se[1], se[2]) ELSE 0,
                 IF n >= 2 THEN se[3] ELSE 0,
                 IF n >= 2 THEN BlockLen(se[3], se[4]) ELSE 0,
                 IF n >= 3 THEN se[5] ELSE 0,
                 IF n >= 3 THEN BlockLen(se[5], se[6]) ELSE 0,
                 NoPayload)

\* a payload of chunk_size taken for the last one as well
LastPacket_Mut(payload) == payload.len <= P_SIZE

\* the check for the last packet: a payload shorter than chunk_size
LastPacket(payload) == payload.len < P_SIZE

\* the receiver's variables after the DATA part of the handler
AfterData(pkt) ==
    LET num     == pkt.num
        payload == pkt.payload
        short   == LastPacket(payload)
        base    == [seq  |-> buffer_seq, buf |-> r_buffer,
                    size |-> buffer_size, next |-> next, out |-> out_file]
        st      == IF num = next THEN InOrder(payload)
                   ELSE IF Buffers(num)
                        THEN [base EXCEPT !.seq = Append(buffer_seq, num),
                                          !.buf = Append(r_buffer, payload),
                                          !.size = buffer_size + 1]
                        ELSE base
    IN  [seq |-> st.seq, buf |-> st.buf, size |-> st.size, next |-> st.next,
         out |-> st.out,
         ev |-> IF num = next THEN "in_order"
                ELSE IF Buffers(num) THEN "buffered"
                ELSE IF InWindow(num) THEN "duplicate" ELSE "out_of_window",
         end_receiver |-> IF short THEN TRUE ELSE end_receiver,
         end_num |-> IF short THEN (num + 1) % M ELSE end_num]

\* a type check that takes every segment for data
IsDataSegment_Mut(pkt) == TRUE

\* the check that the segment is a data segment
IsDataSegment(pkt) == pkt.type = 0

\* END as soon as a short segment has been seen
EndReached_Mut(st) == st.end_receiver

\* the test that ends the receiver once the ACK has been sent
EndReached(st) == st.end_receiver /\ st.end_num = st.next

\* a data loss gate that lets every segment through
DataGate_Mut(lostData) == FALSE

\* the data loss gate, lostData being the outcome of random.random() < p_data
DataGate(lostData) == lostData

\* what the two random draws of one handler step came to
GateOutcome(pkt, lostData, lostAck) ==
    IF lostData THEN "data_lost"
    ELSE IF pkt.type # 0 THEN "not_data"
    ELSE IF lostAck THEN "ack_lost" ELSE "ok"

\* DATA_IN(pkt): the receiver handles segment pkt, the network keeping the
\* segments rest behind it; lostData and lostAck are the outcomes of the two
\* loss gates
DATA_IN(pkt, rest, lostData, lostAck) ==
    /\ r_state = "WAIT_SEGMENT"
    /\ Len(out_file) < Max(MaxOut, Len(payloads) + 1)
    /\ LET st  == AfterData(pkt)
           ack == AckSeg(pkt, st.next, st.seq)
       IN  /\ r_pkt' = pkt
           /\ r_gate' = GateOutcome(pkt, lostData, lostAck)
           /\ IF DataGate(lostData) \/ ~IsDataSegment(pkt)
              THEN /\ lostAck = FALSE
                   /\ r_ev' = "none"
                   /\ r_tx' = <<>>
                   /\ dataCh' = rest
                   /\ UNCHANGED <<r_state, next, end_receiver, end_num,
                                  r_buffer, buffer_seq, buffer_size, out_file,
                                  ackCh>>
              ELSE /\ next' = st.next
                   /\ end_receiver' = st.end_receiver
                   /\ end_num' = st.end_num
                   /\ r_buffer' = st.buf
                   /\ buffer_seq' = st.seq
                   /\ buffer_size' = st.size
                   /\ out_file' = st.out
                   /\ r_ev' = st.ev
                   /\ IF lostAck
                      THEN /\ r_tx' = <<>>
                           /\ r_state' = "WAIT_SEGMENT"
                           /\ dataCh' = rest
                           /\ ackCh' = ackCh
                      ELSE /\ AckRoom(1)
                           /\ r_tx' = <<ack>>
                           /\ ackCh' = ToSender(<<ack>>)
                           /\ r_state' = IF EndReached(st)
                                         THEN "END" ELSE "WAIT_SEGMENT"
                           /\ dataCh' = IF EndReached(st) THEN <<>> ELSE rest
    /\ UNCHANGED cvars
    /\ UNCHANGED svars

\* packet_in: the next segment of the network reaches the receiver
r_packet_in(lostData, lostAck) ==
    /\ dataCh # <<>>
    /\ DATA_IN(Head(dataCh), Tail(dataCh), lostData, lostAck)

\* the data loss gate drops the segment
DataLost == r_packet_in(TRUE, FALSE)

\* the segment is handled and the ack loss gate drops the ACK
AckLost == r_packet_in(FALSE, TRUE)

\* the segment is handled and the ACK is sent
Delivered == r_packet_in(FALSE, FALSE)

----------------------------------------------------------------------------
(* Start-up *)

\* <<n_bits, sender window, receiver window>> of the runs followed: the
\* sender asserts win < 2**n_bits, the receiver win <= 2**n_bits
Windows == {<<1, 1, 1>>, <<1, 1, 2>>, <<2, 2, 1>>, <<2, 2, 2>>}

\* <<Q_4_2, Q_4_3>>: the sender asserts that not both are set
Modes == {<<0, 0>>, <<1, 0>>, <<0, 1>>}

\* the command lines both parse_args accept
Configs ==
    {[n_bits |-> w[1], win |-> w[2], r_win |-> w[3],
      Q_4_2 |-> m[1], Q_4_3 |-> m[2]] : w \in Windows, m \in Modes}

\* the input file in chunks: all of chunk_size but the last, which has last
Chunks(n, last) ==
    [i \in 1..n |-> [id |-> i, len |-> IF i < n THEN P_SIZE ELSE last]]

Inputs == {Chunks(n, last) : n \in 1..MaxChunks, last \in {P_SIZE, SHORT_LEN}}

\* both automata right after parse_args and BEGIN
InitWith(configs, inputs) ==
    /\ cfg \in configs
    /\ payloads \in inputs
    /\ s_state = "SEND"
    /\ q = payloads
    /\ buffer = <<>>
    /\ current = 0
    /\ unack = 0
    /\ receiver_win = cfg.win
    /\ SACK = cfg.Q_4_3
    /\ count_acks = <<0, -1>>
    /\ s_tx = <<>>
    /\ s_ev = "BEGIN"
    /\ s_pkt = NoPkt
    /\ last_ack = <<-1, -1>>
    /\ r_state = "WAIT_SEGMENT"
    /\ next = 0
    /\ end_receiver = FALSE
    /\ end_num = -1
    /\ r_buffer = <<>>
    /\ buffer_seq = <<>>
    /\ buffer_size = 0
    /\ out_file = <<>>
    /\ r_tx = <<>>
    /\ r_pkt = NoPkt
    /\ r_gate = "none"
    /\ r_ev = "none"
    /\ dataCh = <<>>
    /\ ackCh = <<>>

Init == InitWith(Configs, Inputs)

Next ==
    \/ SEND
    \/ s_packet_in
    \/ timeout_reached
    \/ DataLost
    \/ AckLost
    \/ Delivered

Spec == Init /\ [][Next]_vars

----------------------------------------------------------------------------
(* The receiver alone: GBNReceiver fed by any peer *)

\* output length up to which the receiver alone is followed
MaxRecvOut == 4

\* <<n_bits, receiver window>> of the receiver runs followed
RecvWindows == {<<2, 3>>, <<2, 4>>, <<3, 4>>}

\* the command lines of a receiver whose peer is not this sender; the peer
\* sets the SACK option in all of its segments or in none
RecvConfigs ==
    {[n_bits |-> w[1], win |-> 1, r_win |-> w[2],
      Q_4_2 |-> 0, Q_4_3 |-> o] : w \in RecvWindows, o \in {0, 1}}

\* the payload a peer sends under number n: chunks of chunk_size, every
\* second one with the same bytes
PeerPayload(n) == [id |-> (n % 2) + 1, len |-> P_SIZE]

\* the peer's last chunk, shorter than chunk_size
PeerLast == DataSeg(cfg.Q_4_3, (MaxRecvOut - 1) % M, [id |-> 3, len |-> SHORT_LEN])

\* the segments a peer can send, in any order and any number of times: DATA
\* with any number, its last chunk, or an ACK
PeerSegments ==
    {DataSeg(cfg.Q_4_3, n, PeerPayload(n)) : n \in 0..(M - 1)}
    \cup {PeerLast}
    \cup {GBN(1, 0, 6, 0, cfg.win, 0, 0, 0, 0, 0, 0, 0, NoPayload)}

\* the receiver after BEGIN, no sender of this repository running
RecvInit ==
    /\ cfg \in RecvConfigs
    /\ payloads = <<>>
    /\ s_state = "END"
    /\ q = <<>>
    /\ buffer = <<>>
    /\ current = 0
    /\ unack = 0
    /\ receiver_win = cfg.win
    /\ SACK = cfg.Q_4_3
    /\ count_acks = <<0, -1>>
    /\ s_tx = <<>>
    /\ s_ev = "END"
    /\ s_pkt = NoPkt
    /\ last_ack = <<-1, -1>>
    /\ r_state = "WAIT_SEGMENT"
    /\ next = 0
    /\ end_receiver = FALSE
    /\ end_num = -1
    /\ r_buffer = <<>>
    /\ buffer_seq = <<>>
    /\ buffer_size = 0
    /\ out_file = <<>>
    /\ r_tx = <<>>
    /\ r_pkt = NoPkt
    /\ r_gate = "none"
    /\ r_ev = "none"
    /\ dataCh = <<>>
    /\ ackCh = <<>>

\* packet_in with a segment of the peer
PeerSegment(lostData, lostAck) ==
    /\ Len(out_file) < MaxRecvOut
    /\ \E pkt \in PeerSegments : DATA_IN(pkt, <<>>, lostData, lostAck)

PeerDataLost == PeerSegment(TRUE, FALSE)

PeerAckLost == PeerSegment(FALSE, TRUE)

PeerDelivered == PeerSegment(FALSE, FALSE)

RecvNext ==
    \/ PeerDataLost
    \/ PeerAckLost
    \/ PeerDelivered

RecvSpec == RecvInit /\ [][RecvNext]_vars

----------------------------------------------------------------------------
(* The sender alone: GBNSender fed by any receiver that acknowledges what
   is in flight *)

\* number of chunks of the input the sender alone is followed with
MaxSendChunks == 10

\* the command lines of a sender whose peer is not this receiver
SendConfigs ==
    {[n_bits |-> 2, win |-> 2, r_win |-> 2, Q_4_2 |-> m[1], Q_4_3 |-> m[2]] :
        m \in Modes}
    \cup {[n_bits |-> 3, win |-> 6, r_win |-> 6, Q_4_2 |-> 0, Q_4_3 |-> 1],
          [n_bits |-> 4, win |-> 8, r_win |-> 8, Q_4_2 |-> 0, Q_4_3 |-> 1]}

\* the sender after BEGIN, no receiver of this repository running
SendInit ==
    /\ cfg \in SendConfigs
    /\ payloads = Chunks(MaxSendChunks, SHORT_LEN)
    /\ s_state = "SEND"
    /\ q = payloads
    /\ buffer = <<>>
    /\ current = 0
    /\ unack = 0
    /\ receiver_win = cfg.win
    /\ SACK = cfg.Q_4_3
    /\ count_acks = <<0, -1>>
    /\ s_tx = <<>>
    /\ s_ev = "BEGIN"
    /\ s_pkt = NoPkt
    /\ last_ack = <<-1, -1>>
    /\ r_state = "END"
    /\ next = 0
    /\ end_receiver = FALSE
    /\ end_num = -1
    /\ r_buffer = <<>>
    /\ buffer_seq = <<>>
    /\ buffer_size = 0
    /\ out_file = <<>>
    /\ r_tx = <<>>
    /\ r_pkt = NoPkt
    /\ r_gate = "none"
    /\ r_ev = "none"
    /\ dataCh = <<>>
    /\ ackCh = <<>>

\* the numbers of set S in ascending order
RECURSIVE Ascending(_)
Ascending(S) ==
    IF S = {} THEN <<>>
    ELSE LET lo == CHOOSE x \in S : \A y \in S : x <= y
         IN  <<lo>> \o Ascending(S \ {lo})

\* the ACK of a peer that expects number a and holds the numbers a + d,
\* d in D, out of order: one block per run of D, the first three runs
PeerAck(a, D) ==
    LET starts == Ascending({d \in D : d - 1 \notin D})
        n      == Min(3, Len(starts))
        length(d) == CHOOSE l \in 1..Cardinality(D) :
                        /\ \A j \in 0..(l - 1) : d + j \in D
                        /\ d + l \notin D
        left(i)   == IF i <= n THEN (a + starts[i]) % M ELSE 0
        len(i)    == IF i <= n THEN length(starts[i]) ELSE 0
    IN  GBN(1, cfg.Q_4_3, 6 + 3 * n, a, cfg.r_win, n,
            left(1), len(1), left(2), len(2), left(3), len(3), NoPayload)

\* the plain ACK of a peer that expects number a and sets the options bit
\* the other way round than the sender was started with
PeerOptionAck(a) ==
    GBN(1, 1 - cfg.Q_4_3, 6, a, cfg.r_win, 0, 0, 0, 0, 0, 0, 0, NoPayload)

\* the ACKs of a peer that has received some of the segments in flight: it
\* expects one of the numbers from unack to current, and in SACK mode holds
\* any of the buffered numbers after that one within its window; it sets
\* the options bit as the sender was started, or the other way round
PeerAcks ==
    LET inflight == (current - unack + M) % M
        held(i)  == {d \in 1..Min(cfg.r_win - 1, inflight - i - 1) :
                        InList((unack + i + d) % M, Keys(buffer))}
        acks(i)  == {PeerAck((unack + i) % M, D) :
                        D \in IF cfg.Q_4_3 = 1 THEN SUBSET held(i) ELSE {{}}}
                    \cup {PeerOptionAck((unack + i) % M)}
    IN  UNION {acks(i) : i \in 0..inflight}

\* packet_in with a segment of the peer: one of its ACKs, or a DATA segment
PeerToSender ==
    \E pkt \in PeerAcks \cup {DataSeg(0, 0, NoPayload)} : ACK_IN(pkt, <<>>)

SendNext ==
    \/ SEND
    \/ timeout_reached
    \/ PeerToSender

SendSpec == SendInit /\ [][SendNext]_vars

----------------------------------------------------------------------------
(* Either endpoint alone: the sender as above, or a receiver with a window
   of eight that has taken some segments from its peer before *)

\* the expected numbers the receiver with the wide window starts from
WideNexts == {0, 5}

\* the command line of that receiver; its peer sets the SACK option
WideConfigs ==
    {[n_bits |-> 3, win |-> 1, r_win |-> 8, Q_4_2 |-> 0, Q_4_3 |-> 1]}

\* the most segments of the window the peer has sent in any order
MaxShuffled == 3

\* the orders in which the segments at the distances D behind next reached
\* the receiver: any order for up to MaxShuffled segments, the ascending
\* one for more
ArrivalOrders(D) ==
    IF Cardinality(D) <= MaxShuffled
    THEN {f \in [1..Cardinality(D) -> D] :
             \A i, j \in 1..Cardinality(D) : i # j => f[i] # f[j]}
    ELSE {Ascending(D)}

\* the receiver after its peer has sent the segments before next in order
\* and then any of the segments of the window behind next
WideRecvInit ==
    /\ cfg \in WideConfigs
    /\ payloads = <<>>
    /\ s_state = "END"
    /\ q = <<>>
    /\ buffer = <<>>
    /\ current = 0
    /\ unack = 0
    /\ receiver_win = cfg.win
    /\ SACK = cfg.Q_4_3
    /\ count_acks = <<0, -1>>
    /\ s_tx = <<>>
    /\ s_ev = "END"
    /\ s_pkt = NoPkt
    /\ last_ack = <<-1, -1>>
    /\ r_state = "WAIT_SEGMENT"
    /\ next \in WideNexts
    /\ end_receiver = FALSE
    /\ end_num = -1
    /\ \E D \in SUBSET (1..(cfg.r_win - 1)) :
           \E order \in ArrivalOrders(D) :
               buffer_seq = [i \in 1..Cardinality(D) |->
                                (next + order[i]) % M]
    /\ r_buffer = [i \in 1..Len(buffer_seq) |-> PeerPayload(buffer_seq[i])]
    /\ buffer_size = Len(buffer_seq)
    /\ out_file = [i \in 1..next |-> PeerPayload(i - 1)]
    /\ r_tx = <<>>
    /\ r_pkt = NoPkt
    /\ r_gate = "none"
    /\ r_ev = "none"
    /\ dataCh = <<>>
    /\ ackCh = <<>>

\* packet_in with the next segment of the peer
WidePeerSegment(lostData, lostAck) ==
    /\ r_gate = "none"
    /\ \E pkt \in PeerSegments : DATA_IN(pkt, <<>>, lostData, lostAck)

WidePeerDataLost == WidePeerSegment(TRUE, FALSE)

WidePeerAckLost == WidePeerSegment(FALSE, TRUE)

WidePeerDelivered == WidePeerSegment(FALSE, FALSE)

EndpointInit == SendInit \/ WideRecvInit

EndpointNext ==
    \/ SEND
    \/ timeout_reached
    \/ PeerToSender
    \/ WidePeerDataLost
    \/ WidePeerAckLost
    \/ WidePeerDelivered

EndpointSpec == EndpointInit /\ [][EndpointNext]_vars

----------------------------------------------------------------------------
(* C1: the delivered stream *)

\* C1: whenever the receiver is in END, the payloads it appended to the
\* output file are the chunks of the input file, in order, each once.
C1_OutputEqualsInput == r_state = "END" => out_file = payloads

----------------------------------------------------------------------------
(* C2: the round trip under fair scheduling *)

\* longest input of the fair runs, in chunks
MaxLiveChunks == 2

\* inputs whose last chunk is shorter than chunk_size
LiveInputs == {Chunks(n, SHORT_LEN) : n \in 1..MaxLiveChunks}

LiveInit == InitWith(Configs, LiveInputs)

\* the segment carrying chunk i passes both loss gates
DeliveredChunk(i) ==
    /\ dataCh # <<>>
    /\ Head(dataCh).payload.id = i
    /\ Delivered

\* Each automaton runs its handlers: the sender its SEND body, the arrival
\* of a segment whenever it waits (a segment in flight arrives, however
\* often the timer fires first) and, while it waits and nothing arrives, its
\* timer; the receiver the arrival of a segment.  The gates drop with
\* probability below 1, so a chunk that keeps arriving passes both of them
\* again and again.
Fairness ==
    /\ WF_vars(SEND)
    /\ SF_vars(s_packet_in)
    /\ WF_vars(timeout_reached)
    /\ WF_vars(DataLost \/ AckLost \/ Delivered)
    /\ \A i \in 1..MaxLiveChunks : SF_vars(DeliveredChunk(i))

FairSpec == LiveInit /\ [][Next]_vars /\ Fairness

\* C2: with fair gates and a fair timer the receiver eventually is in END
\* with the input as its output, and the sender eventually is in END.
C2_RoundTripCompletes ==
    /\ <>(r_state = "END" /\ out_file = payloads)
    /\ <>(s_state = "END")

----------------------------------------------------------------------------
(* C3, C4: the in-flight buffer of the sender *)

\* the sequence numbers from a up to, not including, b, modulo 2**n_bits
ModRange(a, b) == {(a + i) % M : i \in 0..(((b - a + M) % M) - 1)}

\* C3: in every sender state the keys of the in-flight buffer are exactly
\* the sequence numbers from unack up to, not including, current.
C3_BufferIsWindow == Elems(Keys(buffer)) = ModRange(unack, current)

\* C4, as stated: at every entry to SEND the buffer holds at most
\* min(W_s, W_r) segments, W_r being the window last advertised.
C4_BufferWithinMin ==
    s_state = "SEND" => Len(buffer) <= Min(cfg.win, receiver_win)

\* C4, amended: at every entry to SEND the buffer holds at most W_s
\* segments, and at most min(W_s, W_r) when SEND is entered right after a
\* new segment was added.
C4_BufferWithinSenderWindow ==
    s_state = "SEND" =>
        /\ Len(buffer) <= cfg.win
        /\ (s_ev = "SEND" /\ s_tx # <<>>) =>
               Len(buffer) <= Min(cfg.win, receiver_win)

\* C4 witness: SEND is entered after an ACK that advertised a window below
\* the sender's, with as many segments in the buffer as the sender's window.
C4_Witness ==
    /\ s_state = "SEND"
    /\ s_ev = "ACK_IN"
    /\ receiver_win < cfg.win
    /\ Len(buffer) = cfg.win

----------------------------------------------------------------------------
(* C5, C7: the receiver's out-of-order buffer *)

\* how far number k lies ahead of the expected number, modulo M
Ahead(k) == (k - next + M) % M

\* C5: in every receiver state every buffered sequence number k has
\* 1 <= (k - next) mod M <= win - 1, so next itself is not buffered, and no
\* number is buffered twice; in-order delivery with its drain and the
\* acceptance of an out-of-order segment both keep it.
C5_BufferAheadOfNext ==
    /\ \A i \in 1..Len(buffer_seq) :
           1 <= Ahead(buffer_seq[i]) /\ Ahead(buffer_seq[i]) <= cfg.r_win - 1
    /\ ~InList(next, buffer_seq)
    /\ \A i, j \in 1..Len(buffer_seq) :
           i # j => buffer_seq[i] # buffer_seq[j]

\* an in-order segment was delivered, the drain delivered buffered segments
\* after it, and accepted out-of-order segments are still buffered
C5_Witness ==
    /\ r_ev = "in_order"
    /\ next # (r_pkt.num + 1) % M
    /\ Len(buffer_seq) >= 1

\* the buffer after a DATA segment other than the expected one has passed
\* the data loss gate: the segment appended if accept, unchanged if not
BufferStep(accept) ==
    (r_pkt'.type = 0 /\ r_gate' \in {"ok", "ack_lost"} /\ r_pkt'.num # next)
    => IF accept /\ ~InList(r_pkt'.num, buffer_seq)
       THEN /\ buffer_seq' = Append(buffer_seq, r_pkt'.num)
            /\ r_buffer' = Append(r_buffer, r_pkt'.payload)
            /\ buffer_size' = buffer_size + 1
       ELSE UNCHANGED <<buffer_seq, r_buffer, buffer_size>>

\* C7 as stated: an out-of-order DATA segment is buffered iff its number
\* lies in (next + 1, next + 1 + win - 1] modulo M, that is 2 to win ahead
\* of the expected number, and is not buffered yet; else the buffer is
\* unchanged.
C7_AcceptedInHalfOpenWindow ==
    [][BufferStep(2 <= Ahead(r_pkt'.num) /\ Ahead(r_pkt'.num) <= cfg.r_win)]_vars

\* C7: an out-of-order DATA segment that passed the data loss gate is
\* buffered iff its number lies 1 to win - 1 ahead of the expected number
\* modulo M and is not buffered yet; in every other case the buffer is
\* unchanged.
C7_AcceptedAheadOfNext ==
    [][BufferStep(1 <= Ahead(r_pkt'.num)
                  /\ Ahead(r_pkt'.num) <= cfg.r_win - 1)]_vars

\* the segment right after the expected one has just been buffered behind
\* another buffered segment
C7_Witness ==
    /\ r_ev = "buffered"
    /\ r_pkt.num = (next + 1) % M
    /\ Len(buffer_seq) >= 2

----------------------------------------------------------------------------
(* C6, C8, C9, C10: what the sender does with an ACK *)

\* the step is ACK_IN handling a segment of type ACK
AckStep == s_state = "SEND_IDLE" /\ s_ev' = "ACK_IN" /\ s_pkt'.type = 1

\* C6: after the sender has processed an ACK with number a and window w,
\* unack is a, every key (a - i) mod M with i in 1..w is gone from the
\* buffer, also where a - i is negative, and every other entry is still
\* there.
C6_CumulativeAdvance ==
    [][(AckStep /\ s_state' = "SEND")
       => LET a == s_pkt'.num
              w == s_pkt'.win
              gone == {(a - i + M) % M : i \in 1..w}
          IN  /\ unack' = a
              /\ buffer' = SelectSeq(buffer, LAMBDA e : e.num \notin gone)]_vars

\* C8: an ACK with the number and the window of the ACK processed just
\* before it leaves unack, current and the buffer as they are; it evicts no
\* segment sent since.
C8_RepeatedAckChangesNothing ==
    [][(AckStep /\ last_ack = <<s_pkt'.num, s_pkt'.win>>)
       => UNCHANGED <<unack, current, buffer>>]_vars

\* C9: in Selective-Repeat mode the sender retransmits on an ACK exactly
\* when it is the third in a row with the same number since the last timer
\* expiry or fast retransmit; it then sends one DATA segment with that
\* number and the payload stored under it and resets the counter and the
\* recorded number; on the first and the second it sends nothing.
C9_FastRetransmitOnThird ==
    [][(AckStep /\ cfg.Q_4_2 = 1)
       => IF count_acks = <<1, s_pkt'.num>>
          THEN /\ InList(s_pkt'.num, Keys(buffer))
               /\ Len(s_tx') = 1
               /\ s_tx'[1].type = 0
               /\ s_tx'[1].num = s_pkt'.num
               /\ s_tx'[1].payload = DictGet(buffer, s_pkt'.num)
               /\ count_acks' = <<0, -1>>
          ELSE s_tx' = <<>>]_vars

\* the sequence numbers block (left, length) of a SACK covers
Block(left, length) == {(left + j) % M : j \in 0..(length - 1)}

\* the sequence numbers the blocks of ACK pkt cover
Covered(pkt) ==
    Block(pkt.left_1, pkt.length_1)
    \cup (IF pkt.blen >= 2 THEN Block(pkt.left_2, pkt.length_2) ELSE {})
    \cup (IF pkt.blen >= 3 THEN Block(pkt.left_3, pkt.length_3) ELSE {})

\* the last sequence number of the last block of ACK pkt
LastCovered(pkt) ==
    IF pkt.blen = 1 THEN (pkt.left_1 + pkt.length_1 - 1) % M
    ELSE IF pkt.blen = 2 THEN (pkt.left_2 + pkt.length_2 - 1) % M
    ELSE (pkt.left_3 + pkt.length_3 - 1) % M

\* the buffer entries in front of the entry of key last, none if there is
\* no such entry, that no block of pkt covers, in buffer order
Gaps(buf, pkt, last) ==
    LET before(i) == \E j \in (i + 1)..Len(buf) : buf[j].num = last
        idx == {i \in 1..Len(buf) : before(i) /\ buf[i].num \notin Covered(pkt)}
        pos == Ascending(idx)
    IN  [i \in 1..Len(pos) |-> buf[pos[i]]]

\* C10: in SACK mode, on an ACK with 1 to 3 blocks the sender retransmits
\* exactly the buffer entries that stand, in insertion order, in front of
\* the last sequence number of the last block and that no block covers,
\* each as one DATA segment with its key and its payload, in insertion
\* order, and nothing at or behind that sequence number.
C10_SackRetransmitsGaps ==
    [][(AckStep /\ cfg.Q_4_2 = 0 /\ SACK' = 1 /\ s_pkt'.blen \in {1, 2, 3})
       => LET gaps == Gaps(buffer, s_pkt', LastCovered(s_pkt'))
          IN  /\ Len(s_tx') = Len(gaps)
              /\ \A i \in 1..Len(gaps) :
                     /\ s_tx'[i].type = 0
                     /\ s_tx'[i].num = gaps[i].num
                     /\ s_tx'[i].payload = gaps[i].payload]_vars

\* the buffer held 2..9 and an ACK with the blocks (3,2), (6,1), (8,2) has
\* made the sender retransmit 2, 5, 7 in that order
C10_Witness ==
    /\ s_ev = "ACK_IN"
    /\ Keys(buffer) = <<2, 3, 4, 5, 6, 7, 8, 9>>
    /\ s_pkt.blen = 3
    /\ <<s_pkt.left_1, s_pkt.length_1>> = <<3, 2>>
    /\ <<s_pkt.left_2, s_pkt.length_2>> = <<6, 1>>
    /\ <<s_pkt.left_3, s_pkt.length_3>> = <<8, 2>>
    /\ [i \in 1..Len(s_tx) |-> s_tx[i].num] = <<2, 5, 7>>

----------------------------------------------------------------------------
(* C11, C12: the SACK blocks of the receiver *)

\* the blocks of ACK pkt as <<left, length>> pairs
SackBlocks(pkt) ==
    SubSeq(<<<<pkt.left_1, pkt.length_1>>, <<pkt.left_2, pkt.length_2>>,
             <<pkt.left_3, pkt.length_3>>>>, 1, pkt.blen)

\* the number of maximal runs of consecutive numbers (modulo M) in set S
RunCount(S) == Cardinality({k \in S : (k + M - 1) % M \notin S})

\* b stands behind a in the block that starts at left
LaterInBlock(left, a, b) == (a - left + M) % M < (b - left + M) % M

\* C11: every block of an emitted SACK has length >= 1 and covers buffered
\* numbers only; neighbours a, b of the ordered list with b # next(a) are
\* never in one block; the blocks are pairwise disjoint; and with at most
\* three maximal runs in the buffer the blocks cover exactly the buffer.
C11_SackBlocksAreBufferedRuns ==
    (r_tx # <<>> /\ r_tx[1].options = 1) =>
        LET blocks == SackBlocks(r_tx[1])
            held   == Elems(buffer_seq)
            list   == SortedBufferSeq(buffer_seq)
            cov(i) == Block(blocks[i][1], blocks[i][2])
        IN  /\ \A i \in 1..Len(blocks) :
                   blocks[i][2] >= 1 /\ cov(i) \subseteq held
            /\ \A i \in 1..Len(blocks), j \in 1..(Len(list) - 1) :
                   (list[j + 1] # (list[j] + 1) % M)
                   => ~(/\ list[j] \in cov(i)
                        /\ list[j + 1] \in cov(i)
                        /\ LaterInBlock(blocks[i][1], list[j], list[j + 1]))
            /\ \A i, j \in 1..Len(blocks) : i # j => cov(i) \cap cov(j) = {}
            /\ RunCount(held) <= 3 => Covered(r_tx[1]) = held

\* the numbers of set S in the order of their distance ahead of next
RECURSIVE ByDistance(_)
ByDistance(S) ==
    IF S = {} THEN <<>>
    ELSE LET lo == CHOOSE x \in S : \A y \in S : Ahead(x) <= Ahead(y)
         IN  <<lo>> \o ByDistance(S \ {lo})

\* C12: in every receiver state the list the high/low partition produces
\* from the buffered numbers is these numbers sorted by (k - next) mod M.
C12_OrderingIsModularSort ==
    SortedBufferSeq(buffer_seq) = ByDistance(Elems(buffer_seq))

----------------------------------------------------------------------------
(* C13: the cumulative ACK *)

\* C13: every ACK the receiver emits is sent in the handler step of the DATA
\* it answers, carries as num the expected number as it stands after
\* delivery and drain and as win the configured window, and at that moment
\* the output holds every chunk of the input before the expected one: the
\* first chunks of the input, as many as next counts modulo M.
C13_AckCarriesExpected ==
    r_tx # <<>> =>
        /\ Len(r_tx) = 1
        /\ r_gate = "ok"
        /\ r_tx[1].type = 1
        /\ r_tx[1].num = next
        /\ r_tx[1].win = cfg.r_win
        /\ Len(out_file) % M = next
        /\ Len(out_file) <= Len(payloads)
        /\ out_file = SubSeq(payloads, 1, Len(out_file))

----------------------------------------------------------------------------
(* C14: the end of the receiver *)

\* C14: the receiver enters END only in a handler step after which a short
\* segment has been seen and next equals end_num, and in which the ACK with
\* that number was sent; a step whose ACK the ack loss gate drops leaves the
\* receiver in WAIT_SEGMENT.
C14_EndOnlyAfterAckSent ==
    [][/\ (r_state # "END" /\ r_state' = "END")
          => /\ end_receiver'
             /\ next' = end_num'
             /\ r_gate' = "ok"
             /\ Len(r_tx') = 1
             /\ r_tx'[1].type = 1
             /\ r_tx'[1].num = end_num'
       /\ r_gate' = "ack_lost" => r_state' = "WAIT_SEGMENT"]_vars

\* the ACK of the step that reached end_num was dropped, and the receiver
\* ended in a later step, on a segment that was not in sequence
C14_Witness ==
    /\ r_state = "END"
    /\ r_gate = "ok"
    /\ r_ev # "in_order"
    /\ r_tx[1].num = end_num

----------------------------------------------------------------------------
(* C15, C16: the end of the sender and its timer *)

\* C15: a pass through SEND that starts with the payload queue empty and
\* unack = current ends the sender, whatever the buffer and the advertised
\* window are; and the sender enters END in no other situation.
C15_EndIffAllAcknowledged ==
    [][/\ (s_state = "SEND" /\ s_state' # "SEND" /\ q = <<>> /\ unack = current)
          => s_state' = "END"
       /\ (s_state # "END" /\ s_state' = "END")
          => (s_state = "SEND" /\ q = <<>> /\ unack = current)]_vars

\* C16: when the timer fires the sender resets the duplicate-ack counter
\* and the recorded number, sends one DATA segment per key of the buffer, in
\* insertion order, each with its key and its stored payload, and is back in
\* SEND with buffer, unack, current, advertised window and queue unchanged.
C16_TimerRetransmitsBuffer ==
    [][(s_state = "SEND_IDLE" /\ s_ev' = "RETRANSMIT")
       => /\ count_acks' = <<0, -1>>
          /\ Len(s_tx') = Len(buffer)
          /\ \A i \in 1..Len(buffer) :
                 /\ s_tx'[i].type = 0
                 /\ s_tx'[i].num = buffer[i].num
                 /\ s_tx'[i].payload = buffer[i].payload
          /\ s_state' = "SEND"
          /\ UNCHANGED <<buffer, unack, current, receiver_win, q>>]_vars

\* in Selective-Repeat mode the timer has retransmitted the keys 3 and 0, in
\* the order they were put into the buffer
C16_Witness ==
    /\ s_ev = "RETRANSMIT"
    /\ cfg.Q_4_2 = 1
    /\ [i \in 1..Len(s_tx) |-> s_tx[i].num] = <<3, 0>>
    /\ Keys(buffer) = <<3, 0>>

----------------------------------------------------------------------------
(* C17: an input whose last chunk has chunk_size bytes *)

\* every chunk of the input, the last one too, has chunk_size bytes
FullLastChunk == payloads[Len(payloads)].len = P_SIZE

\* C17: when the last chunk of the input has exactly chunk_size bytes the
\* receiver never is in END.
C17_NoEndWithoutShortChunk == FullLastChunk => r_state # "END"

\* such an input has been delivered completely and in order, the sender has
\* reached END, and the receiver still waits
C17_Witness ==
    /\ FullLastChunk
    /\ Len(payloads) >= 2
    /\ out_file = payloads
    /\ s_state = "END"
    /\ r_state = "WAIT_SEGMENT"

----------------------------------------------------------------------------
(* C18: stop-and-wait *)

\* n_bits = 1 and both windows 1
StopAndWait == cfg.n_bits = 1 /\ cfg.win = 1 /\ cfg.r_win = 1

\* C18: with n_bits = 1 and both windows 1 the sender never has more than
\* one segment in its buffer, the receiver never buffers a segment, the
\* output is a prefix of the input, and a receiver in END has the input as
\* its output.
C18_StopAndWaitIsCorrect ==
    StopAndWait =>
        /\ Len(buffer) <= 1
        /\ buffer_seq = <<>> /\ r_buffer = <<>> /\ buffer_size = 0
        /\ Len(out_file) <= Len(payloads)
        /\ out_file = SubSeq(payloads, 1, Len(out_file))
        /\ r_state = "END" => out_file = payloads

\* four chunks went through stop-and-wait, with a retransmission by the
\* timer on the way to a receiver that has ended
C18_Witness ==
    /\ StopAndWait
    /\ Len(payloads) = 4
    /\ r_state = "END"
    /\ out_file = payloads
    /\ s_ev = "RETRANSMIT"

----------------------------------------------------------------------------
(* C19, C20: a segment of the wrong type *)

\* C19: when a segment of type ACK passes the data loss gate of the
\* receiver, next, the out-of-order buffer, the output, end_receiver and
\* end_num stay as they are, no ACK is sent, and the receiver is back in
\* WAIT_SEGMENT.
C19_ReceiverDiscardsAck ==
    [][(r_state = "WAIT_SEGMENT" /\ r_pkt'.type = 1 /\ r_gate' # "data_lost")
       => /\ UNCHANGED <<next, buffer_seq, r_buffer, buffer_size, out_file,
                         end_receiver, end_num>>
          /\ r_tx' = <<>>
          /\ r_state' = "WAIT_SEGMENT"]_vars

\* an ACK reached a receiver that holds out-of-order segments and has
\* delivered others
C19_Witness ==
    /\ r_pkt.type = 1
    /\ r_gate = "not_data"
    /\ Len(buffer_seq) >= 2
    /\ Len(out_file) >= 1
    /\ r_state = "WAIT_SEGMENT"

\* C20: when the sender receives a segment of type DATA, unack, current,
\* the buffer, the advertised window, the SACK flag and the duplicate-ack
\* counter stay as they are, nothing is sent, and the sender is back in
\* SEND.
C20_SenderDiscardsData ==
    [][(s_state = "SEND_IDLE" /\ s_ev' = "ACK_IN" /\ s_pkt'.type = 0)
       => /\ UNCHANGED <<unack, current, buffer, receiver_win, SACK,
                         count_acks, q>>
          /\ s_tx' = <<>>
          /\ s_state' = "SEND"]_vars

\* a DATA segment reached a sender in Selective-Repeat mode that has two
\* segments in flight and has counted a repeated ACK
C20_Witness ==
    /\ s_ev = "ACK_IN"
    /\ s_pkt.type = 0
    /\ s_state = "SEND"
    /\ Len(buffer) = 2
    /\ count_acks[1] >= 1

----------------------------------------------------------------------------
(* C21, C22: segments the receiver does not take *)

\* C21: when the data loss gate drops a segment, the short last one too,
\* next, the out-of-order buffer, the output, end_receiver and end_num stay
\* as they are, no ACK is sent, and the receiver is back in WAIT_SEGMENT.
C21_DataLossChangesNothing ==
    [][(r_state = "WAIT_SEGMENT" /\ r_gate' = "data_lost")
       => /\ UNCHANGED <<next, buffer_seq, r_buffer, buffer_size, out_file,
                         end_receiver, end_num>>
          /\ r_tx' = <<>>
          /\ r_state' = "WAIT_SEGMENT"]_vars

\* the gate dropped the short last segment, which was the expected one, at
\* a receiver that holds an out-of-order segment
C21_Witness ==
    /\ r_gate = "data_lost"
    /\ r_pkt.type = 0
    /\ r_pkt.payload.len < P_SIZE
    /\ r_pkt.num = next
    /\ ~end_receiver
    /\ Len(buffer_seq) >= 1
    /\ r_state = "WAIT_SEGMENT"

\* C22: a DATA segment that passed the data loss gate with a number other
\* than the expected one, which is buffered already or lies outside the
\* receive window, leaves next, the out-of-order buffer with its payloads
\* and the output as they are; the receiver answers with an ACK whose num is
\* next, unless the ack loss gate drops it, and with nothing else.
C22_IgnoredSegmentIsAcked ==
    [][(/\ r_state = "WAIT_SEGMENT"
        /\ r_pkt'.type = 0
        /\ r_gate' \in {"ok", "ack_lost"}
        /\ r_pkt'.num # next
        /\ \/ InList(r_pkt'.num, buffer_seq)
           \/ ~(1 <= Ahead(r_pkt'.num) /\ Ahead(r_pkt'.num) <= cfg.r_win - 1))
       => /\ UNCHANGED <<next, buffer_seq, r_buffer, buffer_size, out_file>>
          /\ r_gate' = "ack_lost" => r_tx' = <<>>
          /\ r_gate' = "ok" => /\ Len(r_tx') = 1
                               /\ r_tx'[1].type = 1
                               /\ r_tx'[1].num = next]_vars

\* a segment arrived under a number that is buffered with another payload
\* and has been answered with an ACK
C22_Witness ==
    /\ r_ev = "duplicate"
    /\ r_gate = "ok"
    /\ Len(buffer_seq) >= 2
    /\ \E i \in 1..Len(buffer_seq) :
           buffer_seq[i] = r_pkt.num /\ r_buffer[i] # r_pkt.payload

----------------------------------------------------------------------------
(* C23: Selective Repeat and SACK *)

\* C23: in every state of a sender that parse_args accepted, whatever ACKs
\* it has processed, the Selective-Repeat flag and the SACK flag are not
\* both set.
C23_NeverBothModes == ~(cfg.Q_4_2 = 1 /\ SACK = 1)

----------------------------------------------------------------------------
(* C24, C25: the headers both endpoints send *)

\* the number of blocks ACK pkt carries: blen, which a header of length 6
\* leaves out
BlockCount(pkt) == IF pkt.hlen >= 7 THEN pkt.blen ELSE 0

\* block i of pkt is filled in: both its fields are in the header
BlockPresent(pkt, i) ==
    LET b == <<<<pkt.left_1, pkt.length_1>>, <<pkt.left_2, pkt.length_2>>,
               <<pkt.left_3, pkt.length_3>>>>[i]
    IN  b[1] # Absent /\ b[2] # Absent

\* C24: every ACK the receiver sends has blen in 0..3 and hlen = 6 + 3 * blen,
\* blen being the number of blocks filled in: the number of runs of the
\* ordered list of buffered numbers, and 3 when there are more; every DATA
\* segment the sender sends has hlen = 6 and len equal to the length of its
\* payload.
C24_HeaderLengths ==
    /\ \A i \in 1..Len(r_tx) :
           LET pkt == r_tx[i]
               se  == StartEndRanges(SortedBufferSeq(buffer_seq))
           IN  /\ pkt.type = 1
               /\ BlockCount(pkt) \in 0..3
               /\ pkt.hlen = 6 + 3 * BlockCount(pkt)
               /\ \A j \in 1..3 : BlockPresent(pkt, j) <=> j <= BlockCount(pkt)
               /\ pkt.options = 1 => 2 * BlockCount(pkt) = Min(6, Len(se))
               /\ pkt.options = 0 => BlockCount(pkt) = 0
    /\ \A i \in 1..Len(s_tx) :
           /\ s_tx[i].type = 0
           /\ s_tx[i].hlen = 6
           /\ s_tx[i].len = s_tx[i].payload.len

\* an ACK with three blocks from a receiver whose buffer has four runs
C24_Witness ==
    /\ r_tx # <<>>
    /\ r_tx[1].blen = 3
    /\ r_tx[1].hlen = 15
    /\ RunCount(Elems(buffer_seq)) = 4

\* the two ends of block i of the SACK header of pkt
BlockOf(pkt, i) ==
    <<<<pkt.left_1, pkt.length_1>>, <<pkt.left_2, pkt.length_2>>,
      <<pkt.left_3, pkt.length_3>>>>[i]

\* C25: the ACK follows the DATA segment it answers.  To a segment with
\* options = 0 the ACK has options = 0, hlen = 6 and no block, whatever the
\* buffer holds; to a segment with options = 1 the ACK has options = 1 and
\* the blocks computed from the buffer as the handler left it, with hlen = 6
\* and no block when the buffer is empty.
C25_AckModeFollowsData ==
    (r_gate = "ok")
    => /\ Len(r_tx) = 1
       /\ LET a  == r_tx[1]
              se == StartEndRanges(SortedBufferSeq(buffer_seq))
          IN  /\ a.type = 1
              /\ r_pkt.options = 0
                 => /\ a.options = 0
                    /\ a.hlen = 6
                    /\ BlockCount(a) = 0
                    /\ \A j \in 1..3 : ~BlockPresent(a, j)
              /\ r_pkt.options = 1
                 => /\ a.options = 1
                    /\ BlockCount(a) = block_length(se)
                    /\ \A j \in 1..BlockCount(a) :
                           BlockOf(a, j) =
                               <<se[2 * j - 1],
                                 BlockLen(se[2 * j - 1], se[2 * j])>>
                    /\ buffer_seq = <<>> => a.hlen = 6 /\ BlockCount(a) = 0

\* an ACK without blocks to a segment with options = 0 while two segments
\* wait in the buffer
C25_Witness ==
    /\ r_gate = "ok"
    /\ r_pkt.options = 0
    /\ Len(buffer_seq) >= 2
    /\ r_tx # <<>>
    /\ r_tx[1].hlen = 6

----------------------------------------------------------------------------
(* C26: the buffer of the sender under ACKs in SACK mode *)

\* C26: in SACK mode the handling of an ACK adds no entry to the buffer and
\* changes none: the entries after it are entries of before it, in the same
\* order.  So the entries that were in flight when an ACK covered all of
\* unack up to current only become fewer under every later ACK.
C26_AcksOnlyShrinkBuffer ==
    [][(AckStep /\ SACK' = 1)
       => /\ Elems(buffer') \subseteq Elems(buffer)
          /\ Len(buffer') <= Len(buffer)
          /\ \A i, j \in 1..Len(buffer') :
                 i < j => \E k, l \in 1..Len(buffer) :
                              /\ k < l
                              /\ buffer[k] = buffer'[i]
                              /\ buffer[l] = buffer'[j]]_vars

\* the sender in SACK mode has handled an ACK that acknowledges all it has
\* sent, and still holds one of those segments
C26_Witness ==
    /\ s_ev = "ACK_IN"
    /\ s_state = "SEND"
    /\ SACK = 1
    /\ s_pkt.type = 1
    /\ s_pkt.options = 1
    /\ s_pkt.num = current
    /\ unack = current
    /\ buffer # <<>>

----------------------------------------------------------------------------
(* C27: the run without a loss and without a timer *)

\* both loss probabilities are 0 and the timer of the sender never fires
\* before the ACKs on their way have arrived
LossFreeNext ==
    \/ SEND
    \/ s_packet_in
    \/ Delivered

\* each automaton goes on while it has a step to take
LossFreeSpec == Init /\ [][LossFreeNext]_vars /\ WF_vars(LossFreeNext)

\* the step is a step of the receiver: every step of the sender changes
\* its state or its queue
ReceiverStep == s_state' = s_state /\ q' = q /\ vars' # vars

\* the number of chunks sent so far
SentCount == Len(payloads) - Len(q)

\* C27: without a loss and without a timer, in each of the three modes every
\* segment the sender sends is the next chunk i of the input, under number
\* i mod M, so that every chunk is sent once and none again; every step of
\* the receiver appends one chunk, the output staying a prefix of the input,
\* and sends one ACK with the number of the next chunk modulo M; and if the
\* last chunk is short both automata end with the output equal to the input.
C27_LossFreeRun ==
    /\ [][/\ s_tx' # <<>> /\ ~ReceiverStep
             => /\ Len(q') = Len(q) - 1
                /\ s_tx' = <<DataSeg(DataOptions(cfg.Q_4_3), SentCount % M,
                                     payloads[SentCount + 1])>>
          /\ ReceiverStep
             => /\ Len(out_file') = Len(out_file) + 1
                /\ out_file' = SubSeq(payloads, 1, Len(out_file'))
                /\ Len(r_tx') = 1
                /\ r_tx'[1].type = 1
                /\ r_tx'[1].num = Len(out_file') % M
                /\ BlockCount(r_tx'[1]) = 0]_vars
    /\ payloads[Len(payloads)].len < P_SIZE
       => <>[](s_state = "END" /\ r_state = "END" /\ out_file = payloads)

\* both automata have ended, the output is the input, and the sequence
\* numbers have wrapped
C27_Witness ==
    /\ s_state = "END"
    /\ r_state = "END"
    /\ out_file = payloads
    /\ Len(payloads) > M
    /\ SACK = 1

----------------------------------------------------------------------------
(* C28: windows of at most half the sequence space, an input long enough
   for the sequence numbers to wrap *)

\* the input of the long runs, in chunks
LongChunks == 7

\* equal windows of 2 with 2 bits of sequence number, in each mode
LongConfigs ==
    {[n_bits |-> 2, win |-> 2, r_win |-> 2, Q_4_2 |-> m[1], Q_4_3 |-> m[2]] :
        m \in Modes}

LongInit == InitWith(LongConfigs, {Chunks(LongChunks, SHORT_LEN)})

LongSpec == LongInit /\ [][Next]_vars

\* the chunk of the input that stands d chunks behind the output, none
\* (NoPayload) behind the end of the input
ChunkAhead(d) ==
    IF Len(out_file) + d + 1 <= Len(payloads)
    THEN payloads[Len(out_file) + d + 1] ELSE NoPayload

\* C28: with equal windows of at most M/2 the output is a prefix of the
\* input in every state, and every payload buffered under key k is the chunk
\* (k - next) mod M chunks ahead of the next chunk to deliver.
C28_OutputIsPrefix ==
    (cfg.win = cfg.r_win /\ 2 * cfg.win <= M)
    => /\ out_file = SubSeq(payloads, 1, Len(out_file))
       /\ \A i \in 1..Len(buffer_seq) :
              r_buffer[i] = ChunkAhead((buffer_seq[i] - next + M) % M)

----------------------------------------------------------------------------
(* C29, C30: what the sender may forget *)

\* C29: whenever the sender is in END, every chunk of the input is in the
\* output of the receiver.
C29_EndMeansDelivered ==
    s_state = "END" => \A i \in 1..Len(payloads) : InList(payloads[i], out_file)

\* C30: the handling of an ACK with number a removes no key from a up to,
\* not including, current from the buffer.
C30_NoUnackedEvicted ==
    [][(AckStep /\ s_state' = "SEND")
       => \A k \in ModRange(s_pkt'.num, current) :
              InList(k, Keys(buffer)) => InList(k, Keys(buffer'))]_vars

----------------------------------------------------------------------------
(* C31: the two lists of the receiver *)

\* the payloads the peer sends under number n
ArrivedWith(n) ==
    {PeerPayload(n)} \cup (IF n = PeerLast.num THEN {PeerLast.payload} ELSE {})

\* C31: in every state of the receiver buffer and buffer_seq have the same
\* length, buffer_size, and the i-th payload of buffer is the payload that
\* arrived with the i-th number of buffer_seq.
C31_ListsAligned ==
    /\ Len(r_buffer) = Len(buffer_seq)
    /\ buffer_size = Len(buffer_seq)
    /\ \A i \in 1..Len(buffer_seq) : r_buffer[i] \in ArrivedWith(buffer_seq[i])

----------------------------------------------------------------------------
(* C32: the left edge of the window of the sender *)

\* C32: after the sender has handled an ACK, unack lies between the unack
\* of before and current, both included, in the order of the sequence
\* numbers modulo M.
C32_UnackStaysInWindow ==
    [][(AckStep /\ s_state' = "SEND")
       => unack' \in ModRange(unack, current) \cup {current}]_vars

----------------------------------------------------------------------------
(* C33, C34: the lookups of ACK_IN *)

\* C33: in Selective-Repeat mode, whenever the counter of duplicate ACKs
\* triggers the retransmission for ACK number a, a is a key of the buffer,
\* and the handler does not raise.
C33_FastRetransmitKeyPresent ==
    [][(AckStep /\ cfg.Q_4_2 = 1 /\ FastRetransmitDue(CountAfter(s_pkt'.num)))
       => /\ InList(s_pkt'.num, Keys(buffer))
          /\ s_state' # "EXCEPTION"]_vars

\* C34: in SACK mode, for every ACK with 1 to 3 blocks the sender handles,
\* the list of the numbers of its blocks is not empty and its last number
\* is a key of the buffer, and the handler does not raise.
C34_LastSackedIsKey ==
    [][(/\ AckStep
        /\ cfg.Q_4_2 = 0
        /\ SackAfter(s_pkt') = 1
        /\ s_pkt'.blen \in {1, 2, 3})
       => /\ FlatRecAcks(s_pkt') # <<>>
          /\ InList(FlatRecAcks(s_pkt')[Len(FlatRecAcks(s_pkt'))], Keys(buffer))
          /\ s_state' # "EXCEPTION"]_vars

----------------------------------------------------------------------------
(* C35: what a SACK makes the sender retransmit *)

\* C35: when the sender in SACK mode handles an ACK with number a and 1 to
\* 3 blocks, it retransmits no segment with a number from unack up to, not
\* including, a, which this ACK acknowledges, and no segment with a number
\* of the blocks, which the receiver holds.
C35_SackResendsOnlyGaps ==
    [][(/\ AckStep
        /\ cfg.Q_4_2 = 0
        /\ SackAfter(s_pkt') = 1
        /\ s_pkt'.blen \in {1, 2, 3})
       => \A i \in 1..Len(s_tx') :
              /\ s_tx'[i].num \notin ModRange(unack, s_pkt'.num)
              /\ s_tx'[i].num \notin Covered(s_pkt')]_vars

====
